---- MODULE Spec2Model ----
(***************************************************************************)
(* Model of the failure-prediction polling subsystem:                      *)
(*   backend/app/scheduler.py              SensorPollingScheduler, globals *)
(*   backend/app/tasks/sensor_polling.py   poll cycle and manual trigger   *)
(*   backend/app/services/ai_prediction_service.py   predict, assessment   *)
(*   backend/app/routers/inspections.py    poll-sensors / ai-assessment    *)
(*   backend/app/utils/sensor_simulator.py SensorSimulator                 *)
(*   backend/app/services/inspection_service.py   complete_inspection      *)
(*                                                                         *)
(* The specifications share the variables.  SchedSpec is the scheduler     *)
(* life cycle (controller calls and worker threads; a poll cycle is seen   *)
(* from _run as a call that returns or raises).  RaceSpec is start() and   *)
(* start_scheduler() called by several threads, statement by statement.    *)
(* PollSpec is the poll cycle, the manual trigger and the endpoints        *)
(* working on the database through SQLAlchemy sessions; ReadSpec adds the  *)
(* read paths to the cycle and the trigger; StatusSpec is the cycle while  *)
(* inspections are completed.  EngineSpec is MockAIPredictionEngine        *)
(* scoring readings (calculate_pof, calculate_cof, calculate_confidence,   *)
(* generate_recommendation and the risk score of predict).  SimulatorSpec  *)
(* is SensorSimulator filling a reading.                                   *)
(***************************************************************************)
EXTENDS Integers, Sequences, FiniteSets, TLC

(***************************************************************************)
(* Bounds                                                                  *)
(***************************************************************************)
MaxWorkers == 2
\* late_cycles stops counting here
LateCap == 2
NumInspections == 2
MaxRows == 3
MaxFaults == 1
JitterSteps == 2
\* intervals of the grid on which random.uniform(a, b) draws
SimSteps == 1
\* threads that call start() or start_scheduler() at the same time
NumCallers == 2

(***************************************************************************)
(* Program constants                                                       *)
(***************************************************************************)
POLLING_INTERVAL == 900
JOIN_TIMEOUT == 5

None == 0
\* Every SensorPollingScheduler that is constructed starts a thread.
Instances == 1..MaxWorkers
Workers == 1..MaxWorkers
Intervals == {POLLING_INTERVAL, 60}

VARIABLES
    \* ---- scheduler.py ----
    scheduler,      \* the module global _scheduler: None or an instance
    created,        \* number of SensorPollingScheduler objects constructed
    interval,       \* instance -> self.interval
    running,        \* instance -> self.running
    thread,         \* instance -> self.thread (None or a worker)
    started,        \* number of threading.Thread objects started
    owner,          \* worker -> the instance whose _run it executes
    pc,             \* worker -> position in _run
    ctl,            \* the controller thread: idle, or blocked in thread.join
    \* ---- observation of the calls (history) ----
    last_call,      \* the latest life-cycle call and what it did
    late_cycles,    \* worker -> poll cycles begun while self.running was False
    last_poll,      \* worker -> how its latest poll_sensors_and_predict ended
    \* ---- database (committed rows) ----
    inspection_status,  \* inspection id -> value of Inspection.status
    primary_inspector_id, \* inspection id -> Inspection.primary_inspector_id
    sensor_data,        \* committed SensorData rows
    failure_predictions,\* committed FailurePrediction rows
    next_id,            \* the next primary key of sensor_data / failure_predictions
    \* ---- poll_sensors_and_predict in progress ----
    poll,           \* position, remaining inspections and Session of the cycle
    \* ---- observation of the calls (history) ----
    cycle,          \* what the current or latest poll cycle did
    faults,         \* number of exceptions injected so far
    last_request,   \* the latest manual trigger or endpoint call and its result
    last_prediction,\* the prediction the latest step created, and its log lines
    \* ---- MockAIPredictionEngine ----
    reading,        \* the SensorDataCreate handed to the engine
    result,         \* what the engine computed for it, or NoResult
    \* ---- SensorSimulator ----
    risk_mode,      \* self.risk_mode of the simulator
    \* ---- threads calling start() / start_scheduler() ----
    caller          \* caller -> the call it is in and its position in it

sched_vars == <<scheduler, created, interval, running, thread, started, owner,
                pc, ctl, last_call, late_cycles, last_poll>>

poll_vars == <<inspection_status, primary_inspector_id, sensor_data, failure_predictions, next_id,
               poll, cycle, faults, last_request, last_prediction>>

engine_vars == <<reading, result, risk_mode>>

race_vars == <<caller>>

vars == <<sched_vars, poll_vars, engine_vars, race_vars>>

NoCall == [op |-> "none", inst |-> None, interval |-> None, noop |-> FALSE,
           repeated |-> FALSE, live_before |-> FALSE]

\* A worker whose _run has begun and not returned.
Alive(w) == pc[w] \notin {"unborn", "exited"}

LiveWorkers == {w \in Workers : Alive(w)}

\* The call repeats the previous life-cycle call (on the same instance; the
\* module-level functions are recorded with inst = None).
Repeats(op, i) == last_call.op = op /\ last_call.inst = i

\* The scheduler's own state: the global and the fields of the instances.
SchedFields == <<scheduler, created, interval, running, thread, started, owner, pc>>

\* time.sleep(self.interval) of worker w
SleepInterval(w) == interval[owner[w]]

\* How poll_sensors_and_predict() ends as seen by its caller.
PollOutcomes == {"returned", "raised"}

\* No thread is inside start() or start_scheduler().
NoCallers == [c \in 1..NumCallers |-> [op |-> "none", at |-> "idle", inst |-> None]]

QuietRace == caller = NoCallers

InitSched ==
    /\ scheduler = None
    /\ created = 0
    /\ interval = [i \in Instances |-> None]
    /\ running = [i \in Instances |-> FALSE]
    /\ thread = [i \in Instances |-> None]
    /\ started = 0
    /\ owner = [w \in Workers |-> None]
    /\ pc = [w \in Workers |-> "unborn"]
    /\ ctl = [state |-> "idle", op |-> "none", inst |-> None]
    /\ last_call = NoCall
    /\ late_cycles = [w \in Workers |-> 0]
    /\ last_poll = [w \in Workers |-> "none"]

(***************************************************************************)
(* SensorPollingScheduler._run                                             *)
(***************************************************************************)
\* Mutant of LoopCondition: the loop never looks at the flag.
LoopConditionAlways(i) == TRUE

\* `while self.running:`
LoopCondition(i) == running[i]

\* Mutant of AfterPollCall: no try/except around the poll call.
AfterPollCallNoExcept(outcome) == IF outcome = "raised" THEN "exited" ELSE "if"

\* try: poll_sensors_and_predict() except Exception: log; then line 50.
AfterPollCall(outcome) == "if"

\* Line 40: evaluate the loop condition; enter the body or leave the loop.
WhileTest(w) ==
    /\ UNCHANGED <<poll_vars, engine_vars, race_vars>>
    /\ pc[w] = "while"
    /\ pc' = [pc EXCEPT ![w] = IF LoopCondition(owner[w]) THEN "admitted" ELSE "exited"]
    /\ UNCHANGED <<scheduler, created, interval, running, thread, started, owner,
                   ctl, last_call, late_cycles, last_poll>>

\* Lines 42-43: the body calls poll_sensors_and_predict().
CycleStart(w) ==
    /\ UNCHANGED <<poll_vars, engine_vars, race_vars>>
    /\ pc[w] = "admitted"
    /\ pc' = [pc EXCEPT ![w] = "cycle"]
    /\ late_cycles' = [late_cycles EXCEPT ![w] =
                          IF running[owner[w]] THEN 0
                          ELSE IF late_cycles[w] < LateCap THEN late_cycles[w] + 1
                          ELSE LateCap]
    /\ UNCHANGED <<scheduler, created, interval, running, thread, started, owner,
                   ctl, last_call, last_poll>>

\* Lines 43-47: the call returns, or raises and the exception is logged.
CycleFinish(w) ==
    /\ UNCHANGED <<poll_vars, engine_vars, race_vars>>
    /\ pc[w] = "cycle"
    /\ \E outcome \in PollOutcomes :
          /\ pc' = [pc EXCEPT ![w] = AfterPollCall(outcome)]
          /\ last_poll' = [last_poll EXCEPT ![w] = outcome]
    /\ UNCHANGED <<scheduler, created, interval, running, thread, started, owner,
                   ctl, last_call, late_cycles>>

\* Lines 50-52: sleep for the interval when still running.
IfTest(w) ==
    /\ UNCHANGED <<poll_vars, engine_vars, race_vars>>
    /\ pc[w] = "if"
    /\ IF running[owner[w]]
          THEN pc' = [pc EXCEPT ![w] = "sleep"]
          ELSE pc' = [pc EXCEPT ![w] = "while"]
    /\ last_poll' = [last_poll EXCEPT ![w] = "none"]
    /\ UNCHANGED <<scheduler, created, interval, running, thread, started, owner,
                   ctl, last_call, late_cycles>>

\* time.sleep returns.
Wake(w) ==
    /\ UNCHANGED <<poll_vars, engine_vars, race_vars>>
    /\ pc[w] = "sleep"
    /\ pc' = [pc EXCEPT ![w] = "while"]
    /\ UNCHANGED <<scheduler, created, interval, running, thread, started, owner,
                   ctl, last_call, late_cycles, last_poll>>

WorkerStep(w) ==
    \/ WhileTest(w)
    \/ CycleStart(w)
    \/ CycleFinish(w)
    \/ IfTest(w)
    \/ Wake(w)

(***************************************************************************)
(* SensorPollingScheduler.start / stop                                     *)
(***************************************************************************)
\* The effect of self.start() on instance i, lines 58-64 (used by start()
\* and by start_scheduler()).
StartEffect(i) ==
    IF running[i]
       THEN UNCHANGED <<running, thread, started, owner, pc, late_cycles>>
       ELSE /\ running' = [running EXCEPT ![i] = TRUE]
            /\ started' = started + 1
            /\ thread' = [thread EXCEPT ![i] = started + 1]
            /\ owner' = [owner EXCEPT ![started + 1] = i]
            /\ pc' = [pc EXCEPT ![started + 1] = "while"]
            /\ late_cycles' = [w \in Workers |->
                                  IF owner[w] = i THEN 0 ELSE late_cycles[w]]

\* get_scheduler().start()
Start ==
    /\ UNCHANGED <<poll_vars, engine_vars, race_vars>>
    /\ ctl.state = "idle"
    /\ scheduler # None
    /\ running[scheduler] \/ started < MaxWorkers
    /\ StartEffect(scheduler)
    /\ UNCHANGED <<scheduler, created, interval, ctl, last_poll>>
    /\ last_call' = [op |-> "start", inst |-> scheduler, interval |-> None,
                     noop |-> (SchedFields' = SchedFields),
                     repeated |-> Repeats("start", scheduler),
                     live_before |-> (LiveWorkers # {})]

\* get_scheduler().stop(), lines 69-74: the flag is cleared; the caller then
\* blocks in self.thread.join(timeout=5) when a thread was started.
Stop ==
    /\ UNCHANGED <<poll_vars, engine_vars, race_vars>>
    /\ ctl.state = "idle"
    /\ scheduler # None
    /\ IF ~running[scheduler]
          THEN UNCHANGED <<running, ctl>>
          ELSE /\ running' = [running EXCEPT ![scheduler] = FALSE]
               /\ ctl' = IF thread[scheduler] # None
                            THEN [state |-> "join", op |-> "stop", inst |-> scheduler]
                            ELSE ctl
    /\ UNCHANGED <<scheduler, created, interval, thread, started, owner, pc,
                   late_cycles, last_poll>>
    /\ last_call' = [op |-> "stop", inst |-> scheduler, interval |-> None,
                     noop |-> (SchedFields' = SchedFields),
                     repeated |-> Repeats("stop", scheduler),
                     live_before |-> FALSE]

(***************************************************************************)
(* start_scheduler / stop_scheduler / get_scheduler                        *)
(***************************************************************************)
\* start_scheduler(interval=iv)
StartScheduler ==
    /\ UNCHANGED <<poll_vars, engine_vars, race_vars>>
    /\ ctl.state = "idle"
    /\ \E iv \in Intervals :
          /\ IF scheduler # None
                THEN UNCHANGED <<scheduler, created, interval, running, thread,
                                 started, owner, pc, late_cycles>>
                ELSE /\ started < MaxWorkers
                     /\ created' = created + 1
                     /\ scheduler' = created + 1
                     /\ interval' = [interval EXCEPT ![created + 1] = iv]
                     /\ StartEffect(created + 1)
          /\ last_call' = [op |-> "start_scheduler", inst |-> None,
                           interval |-> IF scheduler # None THEN None ELSE iv,
                           noop |-> (SchedFields' = SchedFields),
                           repeated |-> Repeats("start_scheduler", None),
                           live_before |-> (LiveWorkers # {})]
    /\ UNCHANGED <<ctl, last_poll>>

\* stop_scheduler(): _scheduler.stop() and then _scheduler = None.  When
\* stop() has a thread to join, the assignment follows the join.
StopScheduler ==
    /\ UNCHANGED <<poll_vars, engine_vars, race_vars>>
    /\ ctl.state = "idle"
    /\ IF scheduler = None
          THEN UNCHANGED <<scheduler, running, ctl>>
          ELSE IF running[scheduler] /\ thread[scheduler] # None
                  THEN /\ running' = [running EXCEPT ![scheduler] = FALSE]
                       /\ ctl' = [state |-> "join", op |-> "stop_scheduler",
                                  inst |-> scheduler]
                       /\ UNCHANGED scheduler
                  ELSE /\ running' = [running EXCEPT ![scheduler] = FALSE]
                       /\ scheduler' = None
                       /\ UNCHANGED ctl
    /\ UNCHANGED <<created, interval, thread, started, owner, pc,
                   late_cycles, last_poll>>
    /\ last_call' = [op |-> "stop_scheduler", inst |-> None, interval |-> None,
                     noop |-> (SchedFields' = SchedFields),
                     repeated |-> Repeats("stop_scheduler", None),
                     live_before |-> FALSE]

\* The joined worker can outlast the timeout: it is inside a poll cycle, or
\* in a time.sleep longer than the timeout.
OutlastsJoin(w) ==
    \/ pc[w] = "cycle"
    \/ pc[w] = "sleep" /\ SleepInterval(w) > JOIN_TIMEOUT

\* self.thread.join(timeout=5) returns: the worker has exited, or the
\* timeout ran out while it was still sleeping or in a cycle.
JoinReturn ==
    /\ UNCHANGED <<poll_vars, engine_vars, race_vars>>
    /\ ctl.state = "join"
    /\ pc[thread[ctl.inst]] = "exited" \/ OutlastsJoin(thread[ctl.inst])
    /\ ctl' = [state |-> "idle", op |-> "none", inst |-> None]
    /\ scheduler' = IF ctl.op = "stop_scheduler" THEN None ELSE scheduler
    /\ UNCHANGED <<created, interval, running, thread, started, owner, pc,
                   last_call, late_cycles, last_poll>>

NextSched ==
    \/ Start
    \/ Stop
    \/ StartScheduler
    \/ StopScheduler
    \/ JoinReturn
    \/ \E w \in Workers : WhileTest(w)
    \/ \E w \in Workers : CycleStart(w)
    \/ \E w \in Workers : CycleFinish(w)
    \/ \E w \in Workers : IfTest(w)
    \/ \E w \in Workers : Wake(w)

(***************************************************************************)
(* start() and start_scheduler() called by several threads at once.  Each  *)
(* statement of the two functions is a step of its caller; the callers'    *)
(* steps and the workers' steps interleave freely (there is no lock in     *)
(* scheduler.py).  A Thread object takes the next worker number when it is  *)
(* constructed (line 63) and begins _run when start() is called on it.     *)
(***************************************************************************)
Callers == 1..NumCallers

\* Caller c moves to position `at` of its call.
Goto(c, at) == caller' = [caller EXCEPT ![c].at = at]

RaceFrame == UNCHANGED <<ctl, last_call, late_cycles, last_poll>>

\* get_scheduler().start(), line 58: `if self.running:` return, else go on.
BeginStart(c) ==
    /\ caller[c].at = "idle"
    /\ scheduler # None
    /\ caller' = [caller EXCEPT ![c] =
                     [op |-> "start", inst |-> scheduler,
                      at |-> IF running[scheduler] THEN "returned" ELSE "line62"]]
    /\ UNCHANGED <<scheduler, created, interval, running, thread, started, owner, pc>>
    /\ RaceFrame
    /\ UNCHANGED <<poll_vars, engine_vars>>

\* Line 62: self.running = True
SetRunning(c) ==
    /\ caller[c].at = "line62"
    /\ running' = [running EXCEPT ![caller[c].inst] = TRUE]
    /\ Goto(c, "line63")
    /\ UNCHANGED <<scheduler, created, interval, thread, started, owner, pc>>
    /\ RaceFrame
    /\ UNCHANGED <<poll_vars, engine_vars>>

\* Line 63: self.thread = threading.Thread(target=self._run, daemon=True)
NewThread(c) ==
    /\ caller[c].at = "line63"
    /\ started < MaxWorkers
    /\ started' = started + 1
    /\ thread' = [thread EXCEPT ![caller[c].inst] = started + 1]
    /\ owner' = [owner EXCEPT ![started + 1] = caller[c].inst]
    /\ Goto(c, "line64")
    /\ UNCHANGED <<scheduler, created, interval, running, pc>>
    /\ RaceFrame
    /\ UNCHANGED <<poll_vars, engine_vars>>

\* Line 64: self.thread.start() on whatever self.thread holds now; a Thread
\* that was started before raises RuntimeError.
ThreadStart(c) ==
    /\ caller[c].at = "line64"
    /\ LET w == thread[caller[c].inst]
       IN  IF pc[w] = "unborn"
              THEN /\ pc' = [pc EXCEPT ![w] = "while"]
                   /\ Goto(c, "returned")
              ELSE /\ UNCHANGED pc
                   /\ Goto(c, "raised")
    /\ UNCHANGED <<scheduler, created, interval, running, thread, started, owner>>
    /\ RaceFrame
    /\ UNCHANGED <<poll_vars, engine_vars>>

\* start_scheduler(), line 95: `if _scheduler is not None:` return.
BeginStartScheduler(c) ==
    /\ caller[c].at = "idle"
    /\ caller' = [caller EXCEPT ![c] =
                     [op |-> "start_scheduler", inst |-> None,
                      at |-> IF scheduler # None THEN "returned" ELSE "line99"]]
    /\ UNCHANGED <<scheduler, created, interval, running, thread, started, owner, pc>>
    /\ RaceFrame
    /\ UNCHANGED <<poll_vars, engine_vars>>

\* Line 99: _scheduler = SensorPollingScheduler(interval=interval)
Construct(c) ==
    /\ caller[c].at = "line99"
    /\ created < MaxWorkers
    /\ created' = created + 1
    /\ scheduler' = created + 1
    /\ interval' = [interval EXCEPT ![created + 1] = POLLING_INTERVAL]
    /\ Goto(c, "line100")
    /\ UNCHANGED <<running, thread, started, owner, pc>>
    /\ RaceFrame
    /\ UNCHANGED <<poll_vars, engine_vars>>

\* Line 100: _scheduler.start() reads the global again and enters start()
\* of that instance (line 58).
CallStart(c) ==
    /\ caller[c].at = "line100"
    /\ caller' = [caller EXCEPT ![c].inst = scheduler,
                                ![c].at = IF running[scheduler] THEN "returned"
                                          ELSE "line62"]
    /\ UNCHANGED <<scheduler, created, interval, running, thread, started, owner, pc>>
    /\ RaceFrame
    /\ UNCHANGED <<poll_vars, engine_vars>>

NextRace ==
    \/ \E c \in Callers : BeginStart(c)
    \/ \E c \in Callers : SetRunning(c)
    \/ \E c \in Callers : NewThread(c)
    \/ \E c \in Callers : ThreadStart(c)
    \/ \E c \in Callers : BeginStartScheduler(c)
    \/ \E c \in Callers : Construct(c)
    \/ \E c \in Callers : CallStart(c)
    \/ \E w \in Workers : WhileTest(w)
    \/ \E w \in Workers : CycleStart(w)
    \/ \E w \in Workers : CycleFinish(w)
    \/ \E w \in Workers : IfTest(w)
    \/ \E w \in Workers : Wake(w)

(***************************************************************************)
(* MockAIPredictionEngine (ai_prediction_service.py)                       *)
(*                                                                         *)
(* Numbers are fixed-point integers.  A channel value is counted in the    *)
(* unit of its column: hundredths (Numeric(10, 2)), ten-thousandths for    *)
(* corrosion_rate (Numeric(10, 4)).  Percentages (pof, confidence, risk    *)
(* score) are counted in hundredths, the two decimals of f'{x:.2f}'.       *)
(***************************************************************************)
Channels == <<"pressure", "temperature", "wall_thickness", "corrosion_rate",
              "vibration", "flow_rate">>

ChannelNames == {Channels[k] : k \in 1..Len(Channels)}

\* Python None in an Optional[Decimal] field; a value v is <<v>>.
Null == <<>>

Dec(v) == <<v>>

\* THRESHOLDS, in the unit of each channel's column.
THRESHOLDS ==
    [pressure       |-> [safe |-> 1000,  warning |-> 1500,  critical |-> 2000],
     temperature    |-> [safe |-> 8000,  warning |-> 10000, critical |-> 12000],
     wall_thickness |-> [safe |-> 1000,  warning |-> 700,   critical |-> 500],
     corrosion_rate |-> [safe |-> 1000,  warning |-> 3000,  critical |-> 5000],
     vibration      |-> [safe |-> 280,   warning |-> 450,   critical |-> 700],
     flow_rate      |-> [safe |-> 5000,  warning |-> 8000,  critical |-> 10000]]

\* The scores calculate_pof appends: critical, warning, safe branch, else.
RISK_SCORES ==
    [pressure       |-> <<90, 60, 30, 10>>,
     temperature    |-> <<85, 55, 25, 5>>,
     wall_thickness |-> <<95, 65, 35, 15>>,
     corrosion_rate |-> <<88, 58, 28, 8>>,
     vibration      |-> <<80, 50, 20, 5>>,
     flow_rate      |-> <<75, 45, 15, 5>>]

\* The values a request or the simulator puts in a channel: below the safe
\* boundary, on each boundary, beyond the critical one; a corroded-through
\* wall (0) for wall_thickness.
ChannelValues ==
    [pressure       |-> {900, 1000, 1500, 2000, 2200},
     temperature    |-> {7500, 8000, 10000, 12000, 12500},
     wall_thickness |-> {0, 450, 500, 700, 1000, 1100},
     corrosion_rate |-> {800, 1000, 3000, 5000, 6000},
     vibration      |-> {200, 280, 450, 700, 800},
     flow_rate      |-> {4500, 5000, 8000, 10000, 11000}]

\* SensorDataCreate: six Optional[Decimal] channels.
Readings ==
    [pressure       : {Null} \cup {Dec(v) : v \in ChannelValues.pressure},
     temperature    : {Null} \cup {Dec(v) : v \in ChannelValues.temperature},
     wall_thickness : {Null} \cup {Dec(v) : v \in ChannelValues.wall_thickness},
     corrosion_rate : {Null} \cup {Dec(v) : v \in ChannelValues.corrosion_rate},
     vibration      : {Null} \cup {Dec(v) : v \in ChannelValues.vibration},
     flow_rate      : {Null} \cup {Dec(v) : v \in ChannelValues.flow_rate}]

\* random.uniform(-5, 5), in hundredths, on a grid of JitterSteps intervals.
Jitters == {(0 - 500) + k * (1000 \div JitterSteps) : k \in 0..JitterSteps}

\* `x is not None`
IsNotNone(x) == x # Null

\* bool(x) of an Optional[Decimal]: None and a zero Decimal are false.
Truthy(x) == x # Null /\ x[1] # 0

RECURSIVE Sum(_)
Sum(s) == IF s = <<>> THEN 0 ELSE Head(s) + Sum(Tail(s))

\* The products avg_pof * 1.1 that lie halfway between two hundredths, in
\* thousandths, which f'{x:.2f}' prints downwards: the IEEE double of the
\* product is the halfway value itself and the digit before it is even.
\* The float 1.1 is above 11/10; for the other halfway products the double
\* of the product is above the halfway value and is printed upwards.
HalfwayPrintedDown == {64625, 70125, 75625}

\* Decimal(f'{x:.2f}') of the float x = num / den (in hundredths, x >= 0).
Format2f(num, den) ==
    LET q == num \div den
        rem == num % den
    IN  IF 2 * rem < den THEN q
        ELSE IF 2 * rem > den THEN q + 1
        ELSE IF (10 * q + 5) \in HalfwayPrintedDown THEN q
        ELSE q + 1

\* Mutant of Reaches: every channel compared with >=.
ReachesAllGe(c, v, level) == v >= THRESHOLDS[c][level]

\* The comparison of value v with a boundary of channel c in calculate_pof
\* and calculate_cof: <= for wall_thickness, >= for the others.
Reaches(c, v, level) ==
    IF c = "wall_thickness" THEN v <= THRESHOLDS[c][level]
    ELSE v >= THRESHOLDS[c][level]

\* Mutant of ChannelRisk: the warning boundary is tested first.
ChannelRiskWarningFirst(c, v) ==
    IF Reaches(c, v, "warning") THEN RISK_SCORES[c][2]
    ELSE IF Reaches(c, v, "critical") THEN RISK_SCORES[c][1]
    ELSE IF Reaches(c, v, "safe") THEN RISK_SCORES[c][3]
    ELSE RISK_SCORES[c][4]

\* Lines 56-126: the if/elif chain of one channel.
ChannelRisk(c, v) ==
    IF Reaches(c, v, "critical") THEN RISK_SCORES[c][1]
    ELSE IF Reaches(c, v, "warning") THEN RISK_SCORES[c][2]
    ELSE IF Reaches(c, v, "safe") THEN RISK_SCORES[c][3]
    ELSE RISK_SCORES[c][4]

\* risk_scores after line 126: one score per channel that is not None.
RECURSIVE RiskScoresFrom(_, _)
RiskScoresFrom(sensor_data_in, k) ==
    IF k > Len(Channels) THEN <<>>
    ELSE LET c == Channels[k]
             x == sensor_data_in[c]
         IN  (IF IsNotNone(x) THEN <<ChannelRisk(c, x[1])>> ELSE <<>>)
                 \o RiskScoresFrom(sensor_data_in, k + 1)

risk_scores(sensor_data_in) == RiskScoresFrom(sensor_data_in, 1)

\* Mutant of IsCriticalScore: a score of exactly 75 is not counted.
IsCriticalScoreStrict(score) == score > 75

\* Line 135: `score >= 75`
IsCriticalScore(score) == score >= 75

critical_count(scores) ==
    Cardinality({k \in 1..Len(scores) : IsCriticalScore(scores[k])})

\* Mutant of avg_pof: the plain mean, no boost.
avg_pof_plain(scores) == <<100 * Sum(scores), Len(scores)>>

\* Lines 132-139: avg_pof as the fraction <<numerator, denominator>> of
\* hundredths, after the boost and its cap.
avg_pof(scores) ==
    LET total == Sum(scores)
        n == Len(scores)
    IN  IF critical_count(scores) >= 3
           THEN IF 120 * total > 9500 * n THEN <<9500, 1>> ELSE <<120 * total, n>>
        ELSE IF critical_count(scores) >= 2
           THEN IF 110 * total > 9000 * n THEN <<9000, 1>> ELSE <<110 * total, n>>
        ELSE <<100 * total, n>>

\* MockAIPredictionEngine.calculate_pof
calculate_pof(sensor_data_in) ==
    LET scores == risk_scores(sensor_data_in)
    IN  IF scores = <<>> THEN 1500
        ELSE Format2f(avg_pof(scores)[1], avg_pof(scores)[2])

\* Lines 155-165: the points of the four critical parameters.  The guard is
\* `sensor_data.x and float(sensor_data.x) <cmp> critical`.
critical_points(sensor_data_in) ==
      (IF Truthy(sensor_data_in.pressure)
          /\ Reaches("pressure", sensor_data_in.pressure[1], "critical")
          THEN 3 ELSE 0)
    + (IF Truthy(sensor_data_in.temperature)
          /\ Reaches("temperature", sensor_data_in.temperature[1], "critical")
          THEN 3 ELSE 0)
    + (IF Truthy(sensor_data_in.wall_thickness)
          /\ Reaches("wall_thickness", sensor_data_in.wall_thickness[1], "critical")
          THEN 4 ELSE 0)
    + (IF Truthy(sensor_data_in.corrosion_rate)
          /\ Reaches("corrosion_rate", sensor_data_in.corrosion_rate[1], "critical")
          THEN 3 ELSE 0)

\* Mutant of pof_points: one point from 60 on, also above 80.
pof_pointsFlat(pof) == IF pof >= 6000 THEN 1 ELSE 0

\* Lines 168-171
pof_points(pof) ==
    IF pof >= 8000 THEN 2
    ELSE IF pof >= 6000 THEN 1
    ELSE 0

\* cof_score after line 171
cof_score(sensor_data_in, pof) == critical_points(sensor_data_in) + pof_points(pof)

\* Lines 174-181
cof_level(score) ==
    IF score >= 8 THEN "critical"
    ELSE IF score >= 5 THEN "high"
    ELSE IF score >= 3 THEN "medium"
    ELSE "low"

\* MockAIPredictionEngine.calculate_cof
calculate_cof(sensor_data_in, pof) == cof_level(cof_score(sensor_data_in, pof))

\* Mutant of available_params: a channel counts when its value is truthy.
available_params_truthy(sensor_data_in) ==
    Cardinality({c \in ChannelNames : Truthy(sensor_data_in[c])})

\* Lines 195-202
available_params(sensor_data_in) ==
    Cardinality({c \in ChannelNames : IsNotNone(sensor_data_in[c])})

\* Mutant of MissingCriticalParams: only a reading without both is penalised.
MissingCriticalParamsBoth(sensor_data_in) ==
    sensor_data_in.wall_thickness = Null /\ sensor_data_in.corrosion_rate = Null

\* Line 208
MissingCriticalParams(sensor_data_in) ==
    sensor_data_in.wall_thickness = Null \/ sensor_data_in.corrosion_rate = Null

\* MockAIPredictionEngine.calculate_confidence, with random.uniform(-5, 5)
\* returning variance: (available / 6) * 100, * 0.8, + variance, max/min,
\* two decimals.
calculate_confidence(sensor_data_in, variance) ==
    LET penalty == MissingCriticalParams(sensor_data_in)
        den == IF penalty THEN 60 ELSE 6
        base == IF penalty THEN available_params(sensor_data_in) * 10000 * 8
                ELSE available_params(sensor_data_in) * 10000
        num == base + variance * den
    IN  IF num < 3000 * den THEN 3000
        ELSE IF num > 9500 * den THEN 9500
        ELSE Format2f(num, den)

\* The four canned texts of generate_recommendation.
ACTION_TEXTS ==
    [critical |-> "IMMEDIATE ACTION REQUIRED",
     high     |-> "Schedule urgent inspection within 24-48 hours",
     medium   |-> "Plan inspection within 1-2 weeks",
     low      |-> "Continue routine monitoring"]

\* Mutant of generate_recommendation: the consequence has no say.
generate_recommendation_pof_only(pof, cof) ==
    IF pof >= 8000
       THEN [action |-> ACTION_TEXTS.critical, priority |-> "critical"]
    ELSE IF pof >= 6000
       THEN [action |-> ACTION_TEXTS.high, priority |-> "high"]
    ELSE IF pof >= 4000
       THEN [action |-> ACTION_TEXTS.medium, priority |-> "medium"]
    ELSE [action |-> ACTION_TEXTS.low, priority |-> "low"]

\* Mutant of generate_recommendation: the pof has no say.
generate_recommendation_cof_only(pof, cof) ==
    [action |-> ACTION_TEXTS[cof], priority |-> cof]

\* MockAIPredictionEngine.generate_recommendation
generate_recommendation(pof, cof) ==
    IF cof = "critical" \/ pof >= 8000
       THEN [action |-> ACTION_TEXTS.critical, priority |-> "critical"]
    ELSE IF cof = "high" \/ pof >= 6000
       THEN [action |-> ACTION_TEXTS.high, priority |-> "high"]
    ELSE IF cof = "medium" \/ pof >= 4000
       THEN [action |-> ACTION_TEXTS.medium, priority |-> "medium"]
    ELSE [action |-> ACTION_TEXTS.low, priority |-> "low"]

\* Mutant of cof_weights: critical weighs like high.
cof_weights_capped == [low |-> 1, medium |-> 2, high |-> 3, critical |-> 3]

\* Line 289
cof_weights == [low |-> 1, medium |-> 2, high |-> 3, critical |-> 4]

\* Lines 283-303 of predict: the scoring and the FailurePrediction it
\* builds.  float(pof) * weight has two decimals, so f'{risk_score:.2f}'
\* prints the product itself.
PredictScores(sensor_data_in, variance) ==
    LET pof == calculate_pof(sensor_data_in)
        cof == calculate_cof(sensor_data_in, pof)
        confidence == calculate_confidence(sensor_data_in, variance)
        rec == generate_recommendation(pof, cof)
    IN  [probability_of_failure |-> pof,
         consequence_of_failure |-> cof,
         confidence_score |-> confidence,
         risk_score |-> Format2f(pof * cof_weights[cof], 1),
         recommended_action |-> rec.action,
         priority |-> rec.priority]

NoResult == [called |-> FALSE]

\* The values of the locals of the engine's methods, next to the prediction.
EngineCall(sensor_data_in, variance) ==
    [called |-> TRUE,
     variance |-> variance,
     risk_scores |-> risk_scores(sensor_data_in),
     critical_points |-> critical_points(sensor_data_in),
     cof_score |-> cof_score(sensor_data_in, calculate_pof(sensor_data_in)),
     prediction |-> PredictScores(sensor_data_in, variance)]

InitEngine ==
    /\ reading \in Readings
    /\ result = NoResult
    /\ risk_mode = "normal"

\* The engine is not looked at.
QuietEngine ==
    /\ reading = [c \in ChannelNames |-> Null]
    /\ result = NoResult
    /\ risk_mode = "normal"

\* predict scores the reading it was given.
Score ==
    /\ ~result.called
    /\ \E variance \in Jitters : result' = EngineCall(reading, variance)
    /\ UNCHANGED <<reading, risk_mode>>
    /\ UNCHANGED <<sched_vars, poll_vars, race_vars>>

NextEngine == Score

(***************************************************************************)
(* SensorSimulator (utils/sensor_simulator.py)                             *)
(*                                                                         *)
(* Values are in the unit of the Decimal the simulator returns: hundredths *)
(* (f'{value:.2f}'), ten-thousandths for corrosion_rate (f'{value:.4f}'),  *)
(* the units of THRESHOLDS above.                                          *)
(***************************************************************************)
RiskModes == {"normal", "warning", "critical", "random"}

BASELINE_RANGES ==
    [pressure       |-> <<800, 1200>>,
     temperature    |-> <<7000, 8500>>,
     wall_thickness |-> <<900, 1200>>,
     corrosion_rate |-> <<500, 1500>>,
     vibration      |-> <<150, 300>>,
     flow_rate      |-> <<4000, 6000>>]

\* Lines 56-58: uniform(min, max) plus uniform(-0.05, 0.05) of itself, to
\* the printed digits.
NormalRange(c) ==
    <<(95 * BASELINE_RANGES[c][1] + 99) \div 100,
      (105 * BASELINE_RANGES[c][2]) \div 100>>

\* Lines 62-73
WARNING_RANGES ==
    [pressure       |-> <<1400, 1700>>,
     temperature    |-> <<9500, 10500>>,
     wall_thickness |-> <<700, 850>>,
     corrosion_rate |-> <<2500, 3500>>,
     vibration      |-> <<400, 550>>,
     flow_rate      |-> <<7500, 8500>>]

\* Lines 77-88
CRITICAL_RANGES ==
    [pressure       |-> <<2000, 2500>>,
     temperature    |-> <<12000, 13500>>,
     wall_thickness |-> <<400, 550>>,
     corrosion_rate |-> <<5000, 7000>>,
     vibration      |-> <<700, 900>>,
     flow_rate      |-> <<10000, 12000>>]

\* random.uniform(a, b) printed with the channel's digits: both ends and
\* the grid points between them.
Uniform(range) ==
    {range[1] + (k * (range[2] - range[1])) \div SimSteps : k \in 0..SimSteps}

ModeValues(mode, c) ==
    IF mode = "normal" THEN Uniform(NormalRange(c))
    ELSE IF mode = "warning" THEN Uniform(WARNING_RANGES[c])
    ELSE Uniform(CRITICAL_RANGES[c])

\* SensorSimulator.generate_reading(parameter): the values it can return.
\* In random mode it draws one of the three modes (weights 0.7, 0.2, 0.1),
\* generates in that mode and sets self.risk_mode back to 'random'.
generate_reading(mode, c) ==
    IF mode = "random"
       THEN UNION {ModeValues(m, c) : m \in {"normal", "warning", "critical"}}
       ELSE ModeValues(mode, c)

\* SensorSimulator(risk_mode), before generate_full_reading.
InitSimulator ==
    /\ risk_mode \in RiskModes
    /\ reading = [c \in ChannelNames |-> Null]
    /\ result = NoResult

\* The channels generate_full_reading has filled so far.
Generated == Cardinality({c \in ChannelNames : reading[c] # Null})

\* One self.generate_reading(parameter) of generate_full_reading, which
\* fills the channels in the order of Channels.
GenerateReading ==
    /\ Generated < Len(Channels)
    /\ LET c == Channels[Generated + 1]
       IN  \E v \in generate_reading(risk_mode, c) :
              reading' = [reading EXCEPT ![c] = Dec(v)]
    /\ UNCHANGED <<result, risk_mode>>
    /\ UNCHANGED <<sched_vars, poll_vars, race_vars>>

NextSimulator == GenerateReading

(***************************************************************************)
(* Database, SQLAlchemy session and Python values                          *)
(***************************************************************************)
InspectionIds == 1..NumInspections

\* An id no Inspection row has.
MissingId == NumInspections + 1

\* Values of InspectionStatus the model's inspections take.
StatusValues == {"in_progress", "completed"}

\* A member of class InspectionStatus(enum.Enum), and a Python str.
EnumMember(v) == [type |-> "InspectionStatus", value |-> v]

PyStr(v) == [type |-> "str", value |-> v]

\* Python ==: a member of a plain enum.Enum equals only itself, never a str.
PyEq(a, b) == a = b

\* The ORM attribute Inspection.status of inspection i.
StatusOf(i) == EnumMember(inspection_status[i])

\* db.query(Inspection).filter(Inspection.id == i).first() is not None
Exists(i) == i \in DOMAIN inspection_status

\* SessionLocal(): autocommit=False, autoflush=False; nothing flushed yet.
SessionLocal == [state |-> "active", sensor |-> {}, pred |-> {}]

\* The database as one operation sees and leaves it.
Store == [sess |-> SessionLocal, sensor_data |-> sensor_data,
          failure_predictions |-> failure_predictions, next_id |-> next_id]

\* Where one pass of the per-inspection logic can raise.
FaultPoints == {"none", "simulate", "flush", "score", "commit"}

\* Values of Inspection.primary_inspector_id (nullable): none, or user 2.
InspectorIds == {None, 2}

\* `inspection.primary_inspector_id or 1`
InspectorOrSystemUser(i) ==
    IF primary_inspector_id[i] # None THEN primary_inspector_id[i] ELSE 1

\* current_user.id of the requests to the endpoints.
CurrentUserId == 1

SensorRow(id, i, user_id) ==
    [id |-> id, inspection_id |-> i, recorded_by_id |-> user_id]

PredictionRow(id, sid, i) == [id |-> id, sensor_data_id |-> sid, inspection_id |-> i]

\* Mutant of Predict: the commit replaces the earlier readings and
\* predictions of the inspection.
PredictOverwriting(st, i, user_id, fault) ==
    LET sid == st.next_id.sensor
        pid == st.next_id.prediction
        row == SensorRow(sid, i, user_id)
        prd == PredictionRow(pid, sid, i)
    IN  IF fault = "flush"
           THEN [st |-> [st EXCEPT !.sess = [state |-> "inactive",
                                             sensor |-> {}, pred |-> {}]],
                 outcome |-> "exception", pair |-> <<>>,
                 predicted |-> TRUE]
        ELSE IF fault = "score"
           THEN [st |-> [st EXCEPT !.sess.sensor = @ \cup {row},
                                   !.next_id.sensor = sid + 1],
                 outcome |-> "exception", pair |-> <<>>,
                 predicted |-> TRUE]
        ELSE IF fault = "commit"
           THEN [st |-> [st EXCEPT !.sess = SessionLocal],
                 outcome |-> "exception", pair |-> <<>>,
                 predicted |-> TRUE]
        ELSE [st |-> [sess |-> SessionLocal,
                      sensor_data |->
                          {r \in st.sensor_data : r.inspection_id # i}
                              \cup st.sess.sensor \cup {row},
                      failure_predictions |->
                          {q \in st.failure_predictions : q.inspection_id # i}
                              \cup st.sess.pred \cup {prd},
                      next_id |-> [sensor |-> sid + 1, prediction |-> pid + 1]],
              outcome |-> "ok", pair |-> <<row, prd>>,
                 predicted |-> TRUE]

\* MockAIPredictionEngine.predict on Session st.sess: db.add + db.flush of the
\* reading, the scoring, db.add of the prediction and db.commit.
\*   - a failed flush rolls the transaction back and leaves the Session
\*     inactive until Session.rollback() is called;
\*   - an exception after the flush leaves the flushed reading in the open
\*     transaction;
\*   - db.commit() commits everything flushed in the transaction; a failed
\*     commit rolls all of it back.
Predict(st, i, user_id, fault) ==
    LET sid == st.next_id.sensor
        pid == st.next_id.prediction
        row == SensorRow(sid, i, user_id)
        prd == PredictionRow(pid, sid, i)
    IN  IF fault = "flush"
           THEN [st |-> [st EXCEPT !.sess = [state |-> "inactive",
                                             sensor |-> {}, pred |-> {}]],
                 outcome |-> "exception", pair |-> <<>>,
                 predicted |-> TRUE]
        ELSE IF fault = "score"
           THEN [st |-> [st EXCEPT !.sess.sensor = @ \cup {row},
                                   !.next_id.sensor = sid + 1],
                 outcome |-> "exception", pair |-> <<>>,
                 predicted |-> TRUE]
        ELSE IF fault = "commit"
           THEN [st |-> [st EXCEPT !.sess = SessionLocal],
                 outcome |-> "exception", pair |-> <<>>,
                 predicted |-> TRUE]
        ELSE [st |-> [sess |-> SessionLocal,
                      sensor_data |-> st.sensor_data \cup st.sess.sensor \cup {row},
                      failure_predictions |->
                          st.failure_predictions \cup st.sess.pred \cup {prd},
                      next_id |-> [sensor |-> sid + 1, prediction |-> pid + 1]],
              outcome |-> "ok", pair |-> <<row, prd>>,
                 predicted |-> TRUE]

\* Mutant of GenerateAiAssessment: the existence check is missing.
GenerateAiAssessmentUnchecked(st, i, user_id, fault) ==
    IF st.sess.state = "inactive"
       THEN [st |-> st, outcome |-> "exception", pair |-> <<>>,
             predicted |-> FALSE]
       ELSE Predict(st, i, user_id, fault)

\* ai_prediction_service.generate_ai_assessment: the query for the
\* inspection (which raises on an inactive Session), HTTPException 404 when
\* there is none, else predict.
GenerateAiAssessment(st, i, user_id, fault) ==
    IF st.sess.state = "inactive"
       THEN [st |-> st, outcome |-> "exception", pair |-> <<>>,
             predicted |-> FALSE]
    ELSE IF ~Exists(i)
       THEN [st |-> st, outcome |-> "http404", pair |-> <<>>,
             predicted |-> FALSE]
    ELSE Predict(st, i, user_id, fault)

\* Lines 46-69 of the poll cycle and 126-149 of the manual trigger: simulate
\* a reading, build SensorDataCreate, call generate_ai_assessment.
ProcessInspection(st, i, fault) ==
    IF fault = "simulate"
       THEN [st |-> st, outcome |-> "exception", pair |-> <<>>,
             predicted |-> FALSE]
       ELSE GenerateAiAssessment(st, i, InspectorOrSystemUser(i), fault)

\* db.close(): whatever the Session's transaction holds is rolled back.
Close(st) == [st EXCEPT !.sess = SessionLocal]

\* The ids of set S in ascending order.
RECURSIVE Ascending(_)
Ascending(S) ==
    IF S = {} THEN <<>>
    ELSE LET m == CHOOSE x \in S : \A y \in S : x <= y
         IN  <<m>> \o Ascending(S \ {m})

\* Mutant of InProgressInspections: the query has no filter.
InProgressInspectionsAll == DOMAIN inspection_status

\* db.query(Inspection).filter(Inspection.status == InspectionStatus.in_progress)
InProgressInspections ==
    {i \in DOMAIN inspection_status : PyEq(StatusOf(i), EnumMember("in_progress"))}

NoCycle == [queried |-> {}, committed |-> {}, faulted |-> {}, errors |-> {},
            query_failed |-> FALSE]

NoRequest == [op |-> "none", id |-> None, fault |-> "none", result |-> "none",
              pair |-> <<>>, log |-> "none", predicted |-> FALSE,
              changed |-> FALSE]

\* Members of class PriorityLevel(enum.Enum) a prediction is given: one
\* below critical, and critical.
PredictedPriorities == {"low", "critical"}

NoPrediction == [via |-> "none", inspection_id |-> None, priority |-> "low",
                 logs |-> {}]

\* Line 310 of predict: logger.info, the same line for every priority.
PredictLogs == {[level |-> "info", line |-> "Prediction generated"]}

\* Lines 71-84 of the poll cycle: logger.info, and logger.warning when
\* prediction_db.priority.value == 'critical'.
CycleLogs(priority) ==
    PredictLogs
        \cup {[level |-> "info", line |-> "Generated prediction for inspection"]}
        \cup (IF priority = "critical"
                 THEN {[level |-> "warning", line |-> "CRITICAL CONDITION detected"]}
                 ELSE {})

\* Line 151 of the manual trigger: logger.info, whatever the priority.
TriggerLogs(priority) ==
    PredictLogs \cup {[level |-> "info", line |-> "Manual prediction generated"]}

\* POST /{id}/ai-assessment logs nothing after generate_ai_assessment.
AiAssessmentLogs(priority) == PredictLogs

\* The log lines of a step that created a prediction of this priority.
LogsOf(via, priority) ==
    IF via = "cycle" THEN CycleLogs(priority)
    ELSE IF via = "ai_assessment" THEN AiAssessmentLogs(priority)
    ELSE TriggerLogs(priority)

\* The priorities the engine may give the prediction of a created pair.
Priorities(pair) == IF Len(pair) = 2 THEN PredictedPriorities ELSE {"low"}

\* The prediction a step created, with the priority the engine gave it.
Created(via, i, pair, priority) ==
    IF Len(pair) = 2
       THEN [via |-> via, inspection_id |-> i, priority |-> priority,
             logs |-> LogsOf(via, priority)]
       ELSE NoPrediction

RowsLeft == next_id.sensor <= MaxRows

\* The fault of an operation that actually raised it (a step the operation
\* did not reach raises nothing).
Fired(fault, r) ==
    IF r.log = "failed" \/ r.result = "http500" THEN fault ELSE "none"

\* The exceptions the environment may still inject.
Allowed(fault) == fault = "none" \/ faults < MaxFaults

InitPoll ==
    /\ inspection_status \in [InspectionIds -> StatusValues]
    /\ primary_inspector_id = [i \in InspectionIds |-> None]
    /\ sensor_data = {}
    /\ failure_predictions = {}
    /\ next_id = [sensor |-> 1, prediction |-> 1]
    /\ poll = [pc |-> "idle", todo |-> <<>>, sess |-> SessionLocal]
    /\ cycle = NoCycle
    /\ faults = 0
    /\ last_request = NoRequest
    /\ last_prediction = NoPrediction

\* The scheduler is looked at with the database at rest.
QuietPoll ==
    /\ inspection_status = [i \in InspectionIds |-> "in_progress"]
    /\ primary_inspector_id = [i \in InspectionIds |-> None]
    /\ sensor_data = {}
    /\ failure_predictions = {}
    /\ next_id = [sensor |-> 1, prediction |-> 1]
    /\ poll = [pc |-> "idle", todo |-> <<>>, sess |-> SessionLocal]
    /\ cycle = NoCycle
    /\ faults = 0
    /\ last_request = NoRequest
    /\ last_prediction = NoPrediction

(***************************************************************************)
(* poll_sensors_and_predict                                                *)
(***************************************************************************)
\* Lines 33-42: a Session and the query for the in_progress inspections.
\* A failing query is caught by the outer except; finally closes.
PollBegin ==
    /\ poll.pc \in {"idle", "done"}
    /\ \E ok \in BOOLEAN :
          IF ok
             THEN /\ poll' = [pc |-> "loop", todo |-> Ascending(InProgressInspections),
                              sess |-> SessionLocal]
                  /\ cycle' = [NoCycle EXCEPT !.queried = InProgressInspections]
                  /\ UNCHANGED faults
             ELSE /\ faults < MaxFaults
                  /\ faults' = faults + 1
                  /\ poll' = [pc |-> "done", todo |-> <<>>, sess |-> SessionLocal]
                  /\ cycle' = [NoCycle EXCEPT !.query_failed = TRUE]
    /\ last_prediction' = NoPrediction
    /\ UNCHANGED <<inspection_status, sensor_data, failure_predictions, next_id,
                   last_request>>
    /\ UNCHANGED <<sched_vars, engine_vars, race_vars, primary_inspector_id>>

\* Lines 44-92: one iteration of the loop, with its try/except.
PollInspection ==
    /\ poll.pc = "loop"
    /\ poll.todo # <<>>
    /\ RowsLeft
    /\ \E fault \in FaultPoints :
          LET i == Head(poll.todo)
              r == ProcessInspection([Store EXCEPT !.sess = poll.sess], i, fault)
          IN  /\ Allowed(fault)
              /\ faults' = IF fault = "none" THEN faults ELSE faults + 1
              /\ sensor_data' = r.st.sensor_data
              /\ failure_predictions' = r.st.failure_predictions
              /\ next_id' = r.st.next_id
              /\ poll' = [poll EXCEPT !.todo = Tail(@), !.sess = r.st.sess]
              /\ cycle' = [cycle EXCEPT
                             !.committed = IF r.outcome = "ok" THEN @ \cup {i} ELSE @,
                             !.faulted = IF fault # "none" THEN @ \cup {i} ELSE @,
                             !.errors = IF r.outcome # "ok" THEN @ \cup {i} ELSE @]
              /\ \E priority \in Priorities(r.pair) :
                    last_prediction' = Created("cycle", i, r.pair, priority)
    /\ UNCHANGED <<inspection_status, last_request>>
    /\ UNCHANGED <<sched_vars, engine_vars, race_vars, primary_inspector_id>>

\* Lines 94-100: the loop is over; finally: db.close().
PollEnd ==
    /\ poll.pc = "loop"
    /\ poll.todo = <<>>
    /\ poll' = [pc |-> "done", todo |-> <<>>, sess |-> SessionLocal]
    /\ last_prediction' = NoPrediction
    /\ UNCHANGED <<inspection_status, sensor_data, failure_predictions, next_id,
                   cycle, faults, last_request>>
    /\ UNCHANGED <<sched_vars, engine_vars, race_vars, primary_inspector_id>>

(***************************************************************************)
(* trigger_sensor_poll_for_inspection and the endpoints                    *)
(***************************************************************************)
\* trigger_sensor_poll_for_inspection(i) on its own Session: what it
\* returns, what it logs and the database it leaves.
TriggerResult(i, fault) ==
    IF ~Exists(i)
       THEN [st |-> Store, result |-> "None", pair |-> <<>>, log |-> "not_found",
             predicted |-> FALSE]
    ELSE IF ~PyEq(PyStr(StatusOf(i).value), PyStr("in_progress"))
       THEN [st |-> Store, result |-> "None", pair |-> <<>>,
             log |-> "not_in_progress", predicted |-> FALSE]
    ELSE LET r == ProcessInspection(Store, i, fault)
         IN  IF r.outcome = "ok"
                THEN [st |-> Close(r.st), result |-> "dict", pair |-> r.pair,
                      log |-> "generated", predicted |-> r.predicted]
                ELSE [st |-> Close(r.st), result |-> "None", pair |-> <<>>,
                      log |-> "failed", predicted |-> r.predicted]

\* POST /{inspection_id}/poll-sensors: 404 when the inspection is missing,
\* 400 when `inspection.status != 'in_progress'`, else the manual trigger
\* and 500 when it returns None.
PollSensorsResult(i, fault) ==
    IF ~Exists(i)
       THEN [st |-> Store, result |-> "http404", pair |-> <<>>, log |-> "none",
             predicted |-> FALSE]
    ELSE IF ~PyEq(StatusOf(i), PyStr("in_progress"))
       THEN [st |-> Store, result |-> "http400", pair |-> <<>>, log |-> "none",
             predicted |-> FALSE]
    ELSE LET t == TriggerResult(i, fault)
         IN  IF t.result = "None"
                THEN [st |-> t.st, result |-> "http500", pair |-> <<>>, log |-> t.log,
                      predicted |-> t.predicted]
                ELSE [st |-> t.st, result |-> "http200", pair |-> t.pair,
                      log |-> t.log, predicted |-> t.predicted]

\* POST /{inspection_id}/ai-assessment: generate_ai_assessment on the
\* request's Session, which get_db closes afterwards.
AiAssessmentResult(i, fault) ==
    LET r == GenerateAiAssessment(Store, i, CurrentUserId, fault)
    IN  IF r.outcome = "ok"
           THEN [st |-> Close(r.st), result |-> "http201", pair |-> r.pair,
                 log |-> "generated", predicted |-> r.predicted]
        ELSE IF r.outcome = "http404"
           THEN [st |-> Close(r.st), result |-> "http404", pair |-> <<>>,
                 log |-> "none", predicted |-> r.predicted]
        ELSE [st |-> Close(r.st), result |-> "http500", pair |-> <<>>,
              log |-> "none", predicted |-> r.predicted]

\* The request leaves its result in the database and in last_request.
Respond(op, i, fault, r) ==
    /\ sensor_data' = r.st.sensor_data
    /\ failure_predictions' = r.st.failure_predictions
    /\ next_id' = r.st.next_id
    /\ Allowed(fault)
    /\ fault = Fired(fault, r)
    /\ faults' = IF fault = "none" THEN faults ELSE faults + 1
    /\ last_request' = [op |-> op, id |-> i, fault |-> fault, result |-> r.result,
                        pair |-> r.pair, log |-> r.log, predicted |-> r.predicted,
                        changed |-> (r.st.sensor_data # sensor_data
                                     \/ r.st.failure_predictions # failure_predictions)]
    /\ \E priority \in Priorities(r.pair) :
          last_prediction' = Created(op, i, r.pair, priority)
    /\ UNCHANGED <<inspection_status, poll, cycle>>
    /\ UNCHANGED <<sched_vars, engine_vars, race_vars, primary_inspector_id>>

RequestIds == InspectionIds \cup {MissingId}

RequestFaults == FaultPoints \ {"simulate"}

\* A direct call of trigger_sensor_poll_for_inspection(i).
ManualTrigger ==
    /\ RowsLeft
    /\ \E i \in RequestIds, fault \in FaultPoints :
          Respond("trigger", i, fault, TriggerResult(i, fault))

\* POST /{i}/poll-sensors
PollSensorsEndpoint ==
    /\ RowsLeft
    /\ \E i \in RequestIds, fault \in FaultPoints :
          Respond("poll_sensors", i, fault, PollSensorsResult(i, fault))

\* POST /{i}/ai-assessment
AiAssessmentEndpoint ==
    /\ RowsLeft
    /\ \E i \in RequestIds, fault \in RequestFaults :
          Respond("ai_assessment", i, fault, AiAssessmentResult(i, fault))

(***************************************************************************)
(* The read paths: get_latest_assessment and GET /{id}/sensor-history      *)
(*                                                                         *)
(* SensorData.recorded_at is the server's now() at the INSERT, so the rows *)
(* of one inspection are ordered by recorded_at as by their ids.           *)
(***************************************************************************)
\* The rows of set S as a sequence, highest id first.
RECURSIVE NewestFirst(_)
NewestFirst(S) ==
    IF S = {} THEN <<>>
    ELSE LET m == CHOOSE x \in S : \A y \in S : x.id >= y.id
         IN  <<m>> \o NewestFirst(S \ {m})

\* db.query(SensorData).filter(SensorData.inspection_id == i)
\*   .order_by(SensorData.recorded_at.desc())
ReadingsNewestFirst(i) == NewestFirst({r \in sensor_data : r.inspection_id = i})

\* The relationship sensor.prediction: the FailurePrediction of the row, if any.
prediction(r) == {p \in failure_predictions : p.sensor_data_id = r.id}

\* AIAssessmentResponse(sensor_data=r, prediction=r.prediction)
Entry(r) == <<r, CHOOSE p \in prediction(r) : TRUE>>

\* ai_prediction_service.get_latest_assessment: .first() of the ordered
\* rows; `if sensor_data and sensor_data.prediction`, else None (<<>>).
get_latest_assessment(i) ==
    LET rows == ReadingsNewestFirst(i)
    IN  IF rows # <<>> /\ prediction(rows[1]) # {} THEN Entry(rows[1]) ELSE <<>>

\* Values of the query parameter limit (ge=1).
Limits == {1, 2}

\* get_sensor_history after the existence check: .limit(limit).all(), then
\* an entry for each of these rows that has a prediction.
get_sensor_history(i, limit) ==
    LET rows == ReadingsNewestFirst(i)
        sensor_readings == SubSeq(rows, 1, IF Len(rows) < limit THEN Len(rows) ELSE limit)
        kept == SelectSeq(sensor_readings, LAMBDA r : prediction(r) # {})
    IN  [k \in 1..Len(kept) |-> Entry(kept[k])]

\* A read leaves its response in last_request and nothing anywhere else.
ReadResponse(op, i, limit, code, pair, entries) ==
    /\ last_request' = [op |-> op, id |-> i, fault |-> "none", result |-> code,
                        pair |-> pair, log |-> "none", predicted |-> FALSE,
                        changed |-> FALSE, limit |-> limit, entries |-> entries]
    /\ last_prediction' = NoPrediction
    /\ UNCHANGED <<inspection_status, sensor_data, failure_predictions, next_id,
                   poll, cycle, faults>>
    /\ UNCHANGED <<sched_vars, engine_vars, race_vars, primary_inspector_id>>

\* GET /{i}/ai-assessment/latest: 404 when get_latest_assessment is None.
GetLatestAiAssessment ==
    \E i \in RequestIds :
        LET r == get_latest_assessment(i)
        IN  ReadResponse("latest_assessment", i, None,
                         IF r = <<>> THEN "http404" ELSE "http200", r, <<>>)

\* GET /{i}/sensor-history?limit=n: 404 when the inspection does not exist.
GetSensorHistory ==
    \E i \in RequestIds, limit \in Limits :
        IF ~Exists(i)
           THEN ReadResponse("sensor_history", i, limit, "http404", <<>>, <<>>)
           ELSE ReadResponse("sensor_history", i, limit, "http200", <<>>,
                             get_sensor_history(i, limit))

\* The engine in the poll cycle and in the manual trigger, and the read paths.
NextRead ==
    \/ PollBegin
    \/ PollInspection
    \/ PollEnd
    \/ ManualTrigger
    \/ GetLatestAiAssessment
    \/ GetSensorHistory

(***************************************************************************)
(* inspection_service.complete_inspection                                  *)
(***************************************************************************)
\* complete_inspection(i) on its own Session: HTTP 400 unless the status is
\* in_progress, else the status becomes completed and is committed.
CompleteInspection ==
    /\ \E i \in InspectionIds :
          IF PyEq(StatusOf(i), EnumMember("in_progress"))
             THEN inspection_status' = [inspection_status EXCEPT ![i] = "completed"]
             ELSE UNCHANGED inspection_status
    /\ last_prediction' = NoPrediction
    /\ UNCHANGED <<sensor_data, failure_predictions, next_id, poll, cycle, faults,
                   last_request>>
    /\ UNCHANGED <<sched_vars, engine_vars, race_vars, primary_inspector_id>>

\* The inspections with and without a primary inspector.
InitStatus ==
    /\ inspection_status \in [InspectionIds -> StatusValues]
    /\ primary_inspector_id \in [InspectionIds -> InspectorIds]
    /\ sensor_data = {}
    /\ failure_predictions = {}
    /\ next_id = [sensor |-> 1, prediction |-> 1]
    /\ poll = [pc |-> "idle", todo |-> <<>>, sess |-> SessionLocal]
    /\ cycle = NoCycle
    /\ faults = 0
    /\ last_request = NoRequest
    /\ last_prediction = NoPrediction

NextStatus ==
    \/ PollBegin
    \/ PollInspection
    \/ PollEnd
    \/ CompleteInspection

(***************************************************************************)
(* Specifications                                                          *)
(***************************************************************************)
NextPoll ==
    \/ PollBegin
    \/ PollInspection
    \/ PollEnd
    \/ ManualTrigger
    \/ PollSensorsEndpoint
    \/ AiAssessmentEndpoint

\* The poll cycle, the manual trigger and the endpoints on the database.
PollInit == InitSched /\ InitPoll /\ QuietEngine /\ QuietRace

PollSpec == PollInit /\ [][NextPoll]_vars

\* The poll cycle, the manual trigger and the read paths.
ReadSpec == PollInit /\ [][NextRead]_vars

\* Poll cycles while inspections are completed.
StatusInit == InitSched /\ InitStatus /\ QuietEngine /\ QuietRace

StatusSpec == StatusInit /\ [][NextStatus]_vars

\* The scheduler's life cycle.
SchedInit == InitSched /\ QuietPoll /\ QuietEngine /\ QuietRace

SchedSpec == SchedInit /\ [][NextSched]_vars

\* The worker threads are scheduled, a poll cycle ends and a sleep ends.
FairSchedSpec == SchedSpec /\ \A w \in Workers : WF_vars(WorkerStep(w))

\* The scoring engine applied to readings.
EngineInit == InitSched /\ QuietPoll /\ InitEngine /\ QuietRace

EngineSpec == EngineInit /\ [][NextEngine]_vars

\* Threads calling start() and start_scheduler() at the same time.
RaceInit == InitSched /\ QuietPoll /\ QuietEngine /\ QuietRace

RaceSpec == RaceInit /\ [][NextRace]_vars

\* The simulator filling a full reading.
SimulatorInit == InitSched /\ QuietPoll /\ InitSimulator /\ QuietRace

SimulatorSpec == SimulatorInit /\ [][NextSimulator]_vars

(***************************************************************************)
(* Claims about the scheduler                                              *)
(***************************************************************************)
\* The worker loops that will go on polling: alive, and their flag is set.
ActiveLoops == {w \in Workers : Alive(w) /\ running[owner[w]]}

InCycle == {w \in Workers : pc[w] = "cycle"}

\* C3: at any moment at most one polling loop is executing poll cycles, so
\* two poll cycles never overlap (per instance and process-wide).
C3_NoOverlappingCycles == Cardinality(InCycle) <= 1

\* C4: start twice in a row leaves exactly one worker loop and the second
\* call changes no state; stop twice in a row leaves the scheduler stopped
\* and the second call changes no state.
C4_IdempotentLifecycle ==
    /\ (last_call.op \in {"start", "start_scheduler"} /\ last_call.repeated)
          => (last_call.noop /\ Cardinality(ActiveLoops) = 1)
    /\ (last_call.op = "stop") => ~running[last_call.inst]
    /\ (last_call.op = "stop_scheduler" /\ ctl.state = "idle") => scheduler = None
    /\ (last_call.op \in {"stop", "stop_scheduler"} /\ last_call.repeated)
          => last_call.noop

\* C5: a start request is a no-op only when a polling loop is already
\* running; otherwise the scheduler is running afterwards, with a worker
\* loop polling at the interval given to the request.
C5_StartIsNoopOnlyWhenRunning ==
    (last_call.op \in {"start", "start_scheduler"}) =>
        /\ last_call.noop => last_call.live_before
        /\ ~last_call.noop =>
              /\ scheduler # None
              /\ running[scheduler]
              /\ thread[scheduler] # None
              /\ Alive(thread[scheduler])
              /\ last_call.op = "start_scheduler"
                    => SleepInterval(thread[scheduler]) = last_call.interval

\* A live worker whose scheduler's flag is cleared.
Stopping(w) == Alive(w) /\ ~running[owner[w]]

\* C6: once stop() has cleared the flag (and start() is not called again)
\* the worker loop eventually exits; it begins at most the one cycle the
\* loop condition had already admitted, it leaves the loop when it finds
\* the flag cleared, and stop() does not touch the worker's position.
C6_StopLetsLoopExit ==
    /\ \A w \in Workers : []<>(~Stopping(w))
    /\ [](\A w \in Workers :
             (owner[w] # None /\ ~running[owner[w]]) => late_cycles[w] <= 1)
    /\ [][\A w \in Workers :
             /\ (pc[w] = "while" /\ ~running[owner[w]] /\ pc'[w] # pc[w])
                   => pc'[w] = "exited"
             /\ (owner[w] # None /\ running[owner[w]] /\ ~running'[owner[w]])
                   => pc'[w] = pc[w]]_vars

\* C6 witness: a worker ran the cycle it was admitted to after stop() and
\* then left the loop.
C6_Witness ==
    \E w \in Workers : pc[w] = "exited" /\ late_cycles[w] = 1 /\ ~running[owner[w]]

\* C7: whatever way a poll cycle ends (returning after catching its
\* exceptions, or raising), the worker stays in its loop and the running
\* flag is untouched; while the flag is set it sleeps and is admitted to
\* the next cycle.
C7_ExceptionsDoNotStopLoop ==
    [][\A w \in Workers :
          /\ (pc[w] = "cycle" /\ pc'[w] # pc[w])
                => (pc'[w] = "if" /\ running' = running)
          /\ (pc[w] = "if" /\ running[owner[w]] /\ pc'[w] # pc[w])
                => pc'[w] = "sleep"
          /\ (pc[w] = "sleep" /\ pc'[w] # pc[w]) => pc'[w] = "while"
          /\ (pc[w] = "while" /\ running[owner[w]] /\ pc'[w] # pc[w])
                => pc'[w] = "admitted"
          /\ (pc[w] = "admitted" /\ pc'[w] # pc[w]) => pc'[w] = "cycle"]_vars

\* C7 witness: a poll cycle raised and the worker is at line 50, running.
C7_Witness ==
    \E w \in Workers :
        last_poll[w] = "raised" /\ pc[w] = "if" /\ running[owner[w]]

(***************************************************************************)
(* Claims about the poll cycle, the manual trigger and the endpoints       *)
(***************************************************************************)
PredictionsOf(r) == {p \in failure_predictions : p.sensor_data_id = r.id}

ReadingsOf(p) == {r \in sensor_data : r.id = p.sensor_data_id}

\* C1: in a poll cycle in which the processing of one inspection raises,
\* every other in_progress inspection still gets a reading and a
\* prediction committed in that cycle.
C1_FailureIsolation ==
    (poll.pc = "done" /\ Cardinality(cycle.faulted) = 1)
        => \A i \in cycle.queried \ cycle.faulted : i \in cycle.committed

\* C2: every committed SensorData row has exactly one committed
\* FailurePrediction row and every FailurePrediction row exactly one
\* SensorData row.
C2_ReadingAndPredictionTogether ==
    /\ \A r \in sensor_data : Cardinality(PredictionsOf(r)) = 1
    /\ \A p \in failure_predictions : Cardinality(ReadingsOf(p)) = 1

\* C8: POST /{inspection_id}/poll-sensors for an existing in_progress
\* inspection (nothing failing) creates one reading with its prediction for
\* that inspection and returns that pair.
C8_PollSensorsCreatesPair ==
    (/\ last_request.op = "poll_sensors"
     /\ Exists(last_request.id)
     /\ inspection_status[last_request.id] = "in_progress"
     /\ last_request.fault = "none")
        => /\ last_request.result = "http200"
           /\ last_request.changed
           /\ Len(last_request.pair) = 2
           /\ last_request.pair[1] \in sensor_data
           /\ last_request.pair[2] \in failure_predictions
           /\ last_request.pair[1].inspection_id = last_request.id
           /\ last_request.pair[2].sensor_data_id = last_request.pair[1].id

\* What the caller of the manual trigger gets for a missing inspection and
\* for a processing failure on inspection j.
TriggerNotFound == TriggerResult(MissingId, "none").result

TriggerFailure(j) == TriggerResult(j, "flush").result

\* C9: a manual trigger on an existing inspection that is not in_progress
\* creates nothing and reports an outcome the caller can tell apart from
\* 'not found' and from a processing failure.
C9_NotEligibleIsDistinct ==
    (/\ last_request.op = "trigger"
     /\ Exists(last_request.id)
     /\ inspection_status[last_request.id] # "in_progress")
        => /\ ~last_request.changed
           /\ ~last_request.predicted
           /\ last_request.result # TriggerNotFound
           /\ \A j \in InProgressInspections : last_request.result # TriggerFailure(j)

\* C10: generate_ai_assessment and the manual trigger, called with an id no
\* inspection has, report not-found, do not invoke predict and leave the
\* stored readings and predictions as they were.
C10_NotFoundWritesNothing ==
    (last_request.op \in {"ai_assessment", "trigger"} /\ ~Exists(last_request.id))
        => /\ ~last_request.changed
           /\ ~last_request.predicted
           /\ last_request.pair = <<>>
           /\ last_request.op = "ai_assessment" => last_request.result = "http404"
           /\ last_request.op = "trigger"
                 => (last_request.result = "None" /\ last_request.log = "not_found")
           /\ \A r \in sensor_data : Exists(r.inspection_id)
           /\ \A p \in failure_predictions : Exists(p.inspection_id)

\* C10 witness: the assessment endpoint answered 404 for a missing
\* inspection while rows of other inspections were stored.
C10_Witness ==
    /\ last_request.op = "ai_assessment"
    /\ ~Exists(last_request.id)
    /\ last_request.result = "http404"
    /\ sensor_data # {}

(***************************************************************************)
(* Claims about the scoring engine                                         *)
(***************************************************************************)
Prediction == result.prediction

\* |x - num/den| <= 1/2: x is num/den rounded to a whole number of
\* hundredths (either neighbour when num/den lies halfway).
IsRounded(x, num, den) ==
    /\ 2 * (x * den - num) <= den
    /\ 2 * (num - x * den) <= den

\* The place of channel Channels[k] in risk_scores.
Position(sensor_data_in, k) ==
    Cardinality({j \in 1..k : IsNotNone(sensor_data_in[Channels[j]])})

\* C11: the risk_score of a prediction is its probability_of_failure times
\* the weight of its consequence_of_failure (low 1, medium 2, high 3,
\* critical 4), to two decimals.
C11_RiskScoreIdentity ==
    result.called =>
        LET weight == [low |-> 1, medium |-> 2, high |-> 3, critical |-> 4]
        IN  IsRounded(Prediction.risk_score,
                      Prediction.probability_of_failure
                          * weight[Prediction.consequence_of_failure], 1)

\* C11 witness: a critical prediction whose risk score is four times 95.00.
C11_Witness ==
    /\ result.called
    /\ Prediction.consequence_of_failure = "critical"
    /\ Prediction.probability_of_failure = 9500
    /\ Prediction.risk_score = 38000

\* C12: in calculate_cof a channel gains its points (pressure 3,
\* temperature 3, wall_thickness 4, corrosion_rate 3) exactly when it is
\* non-null and meets its critical threshold, the presence test and
\* comparison of calculate_pof.
C12_CriticalPointsByComparison ==
    result.called =>
        LET points == [pressure |-> 3, temperature |-> 3, wall_thickness |-> 4,
                       corrosion_rate |-> 3]
            gain(c) == IF IsNotNone(reading[c]) /\ Reaches(c, reading[c][1], "critical")
                          THEN points[c] ELSE 0
        IN  result.critical_points =
                gain("pressure") + gain("temperature") + gain("wall_thickness")
                    + gain("corrosion_rate")

\* C13: calculate_pof is 15.00 for a reading without channels; otherwise
\* the mean of the bucket scores, times 1.2 capped at 95 when at least
\* three scores are >= 75, times 1.1 capped at 90 when exactly two are,
\* rounded to two decimals.
C13_PofIsBoostedMean ==
    result.called =>
        LET scores == result.risk_scores
            n == Len(scores)
            total == Sum(scores)
            high == Cardinality({k \in 1..n : scores[k] >= 75})
            pof == Prediction.probability_of_failure
        IN  IF \A c \in ChannelNames : reading[c] = Null
               THEN pof = 1500
            ELSE IF high >= 3
               THEN IF 120 * total >= 9500 * n THEN pof = 9500
                    ELSE IsRounded(pof, 120 * total, n)
            ELSE IF high = 2
               THEN IF 110 * total >= 9000 * n THEN pof = 9000
                    ELSE IsRounded(pof, 110 * total, n)
            ELSE IsRounded(pof, 100 * total, n)

\* C13 witness: exactly two scores of 75 or more, one of them flow_rate's
\* 75, and the mean was raised by a tenth.
C13_Witness ==
    /\ result.called
    /\ result.risk_scores = <<90, 5, 5, 75>>
    /\ Prediction.probability_of_failure = 4813

\* The threshold table: safe, warning and critical boundary, and the scores
\* from the critical bucket down.
BucketTable ==
    [pressure       |-> [bounds |-> <<1000, 1500, 2000>>,   scores |-> <<90, 60, 30, 10>>],
     temperature    |-> [bounds |-> <<8000, 10000, 12000>>, scores |-> <<85, 55, 25, 5>>],
     wall_thickness |-> [bounds |-> <<1000, 700, 500>>,     scores |-> <<95, 65, 35, 15>>],
     corrosion_rate |-> [bounds |-> <<1000, 3000, 5000>>,   scores |-> <<88, 58, 28, 8>>],
     vibration      |-> [bounds |-> <<280, 450, 700>>,      scores |-> <<80, 50, 20, 5>>],
     flow_rate      |-> [bounds |-> <<5000, 8000, 10000>>,  scores |-> <<75, 45, 15, 5>>]]

\* The score the table gives value v of channel c.
BucketScore(c, v) ==
    LET row == BucketTable[c]
        met(b) == IF c = "wall_thickness" THEN v <= b ELSE v >= b
    IN  IF met(row.bounds[3]) THEN row.scores[1]
        ELSE IF met(row.bounds[2]) THEN row.scores[2]
        ELSE IF met(row.bounds[1]) THEN row.scores[3]
        ELSE row.scores[4]

\* C14: every non-null channel contributes the bucket score of the
\* threshold table (first of critical, warning, safe that is met; >= but
\* <= for wall_thickness); a null channel contributes nothing.
C14_BucketScores ==
    result.called =>
        /\ Len(result.risk_scores) = available_params(reading)
        /\ \A k \in 1..Len(Channels) :
              IsNotNone(reading[Channels[k]]) =>
                  result.risk_scores[Position(reading, k)]
                      = BucketScore(Channels[k], reading[Channels[k]][1])

\* C14 witness: wall_thickness on its warning boundary and pressure on its
\* critical boundary, temperature absent.
C14_Witness ==
    /\ result.called
    /\ reading.pressure = Dec(2000)
    /\ reading.temperature = Null
    /\ reading.wall_thickness = Dec(700)
    /\ result.risk_scores[1] = 90
    /\ result.risk_scores[2] = 65

\* C15: calculate_cof adds 2 points when pof >= 80, else 1 when pof >= 60,
\* and the total maps to critical (>= 8), high (>= 5), medium (>= 3), low.
C15_PofPointsAndLevel ==
    result.called =>
        LET pof == Prediction.probability_of_failure
            total == result.cof_score
        IN  /\ total - result.critical_points
                  = IF pof >= 8000 THEN 2 ELSE IF pof >= 6000 THEN 1 ELSE 0
            /\ Prediction.consequence_of_failure
                  = IF total >= 8 THEN "critical"
                    ELSE IF total >= 5 THEN "high"
                    ELSE IF total >= 3 THEN "medium"
                    ELSE "low"

\* C15 witness: a pof of 80 or more gave its 2 points, which made the
\* total 8 and the consequence critical.
C15_Witness ==
    /\ result.called
    /\ Prediction.probability_of_failure >= 8000
    /\ result.critical_points = 6
    /\ result.cof_score = 8
    /\ Prediction.consequence_of_failure = "critical"

\* C16: the priority is critical if cof is critical or pof >= 80, else high
\* if cof is high or pof >= 60, else medium if cof is medium or pof >= 40,
\* else low; the action text is the one of the priority.
C16_Recommendation ==
    result.called =>
        LET pof == Prediction.probability_of_failure
            cof == Prediction.consequence_of_failure
        IN  /\ Prediction.priority
                  = IF cof = "critical" \/ pof >= 8000 THEN "critical"
                    ELSE IF cof = "high" \/ pof >= 6000 THEN "high"
                    ELSE IF cof = "medium" \/ pof >= 4000 THEN "medium"
                    ELSE "low"
            /\ Prediction.recommended_action = ACTION_TEXTS[Prediction.priority]

\* C16 witness: a low consequence with a pof of 80 got priority critical.
C16_Witness ==
    /\ result.called
    /\ Prediction.consequence_of_failure = "low"
    /\ Prediction.probability_of_failure >= 8000
    /\ Prediction.priority = "critical"
    /\ Prediction.recommended_action = ACTION_TEXTS.critical

\* C17: the confidence is clamp(base * penalty + jitter, 30, 95) to two
\* decimals, base = non-null channels / 6 * 100, penalty 0.8 when
\* wall_thickness or corrosion_rate is null; it lies in [30, 95], and is
\* 30.00 for a reading with only wall_thickness.
C17_Confidence ==
    result.called =>
        LET n == Cardinality({c \in ChannelNames : reading[c] # Null})
            penalised == reading.wall_thickness = Null \/ reading.corrosion_rate = Null
            den == IF penalised THEN 60 ELSE 6
            num == (IF penalised THEN 8 ELSE 1) * n * 10000 + result.variance * den
            conf == Prediction.confidence_score
        IN  /\ result.variance >= 0 - 500 /\ result.variance <= 500
            /\ conf >= 3000 /\ conf <= 9500
            /\ IF num <= 3000 * den THEN conf = 3000
               ELSE IF num >= 9500 * den THEN conf = 9500
               ELSE IsRounded(conf, num, den)
            /\ (reading.wall_thickness # Null
                /\ \A c \in ChannelNames \ {"wall_thickness"} : reading[c] = Null)
                  => conf = 3000

\* C17 witness: only wall_thickness is present, the jitter is +5 and the
\* confidence is 30.00.
C17_Witness ==
    /\ result.called
    /\ reading.wall_thickness # Null
    /\ \A c \in ChannelNames \ {"wall_thickness"} : reading[c] = Null
    /\ result.variance = 500
    /\ Prediction.confidence_score = 3000

\* "Increasing" the value of channel c from v to w; for wall_thickness,
\* decreasing it.
Worsens(c, v, w) == IF c = "wall_thickness" THEN w <= v ELSE w >= v

\* C19: with the other channels fixed, a higher value of pressure,
\* temperature, corrosion_rate, vibration or flow_rate (a lower value of
\* wall_thickness) never has a lower bucket score than the one
\* calculate_pof gave the reading's value.
C19_BucketMonotone ==
    result.called =>
        \A k \in 1..Len(Channels) :
            LET c == Channels[k]
            IN  IsNotNone(reading[c]) =>
                    \A w \in ChannelValues[c] :
                        Worsens(c, reading[c][1], w) =>
                            ChannelRisk(c, w)
                                >= result.risk_scores[Position(reading, k)]

\* C19 witness: a scored reading whose wall_thickness is on the safe
\* boundary and whose pressure is below its safe boundary, so that worse
\* values of both exist.
C19_Witness ==
    /\ result.called
    /\ reading.wall_thickness = Dec(1000)
    /\ reading.pressure = Dec(900)
    /\ result.risk_scores[1] = 10

\* All six channels are present and in their critical bucket.
AllCritical(sensor_data_in) ==
    /\ \A c \in ChannelNames : sensor_data_in[c] # Null
    /\ sensor_data_in.pressure[1] >= 2000
    /\ sensor_data_in.temperature[1] >= 12000
    /\ sensor_data_in.wall_thickness[1] <= 500
    /\ sensor_data_in.corrosion_rate[1] >= 5000
    /\ sensor_data_in.vibration[1] >= 700
    /\ sensor_data_in.flow_rate[1] >= 10000

\* C20: a reading with all six channels in their critical bucket gets
\* pof 95.00 (>= 90), cof critical, priority critical and a risk score of
\* four times the pof.
C20_CriticalScenario ==
    (result.called /\ AllCritical(reading)) =>
        /\ Prediction.probability_of_failure >= 9000
        /\ Prediction.probability_of_failure = 9500
        /\ Prediction.consequence_of_failure = "critical"
        /\ Prediction.priority = "critical"
        /\ Prediction.risk_score = 4 * Prediction.probability_of_failure

\* C20 witness: pressure=22, temperature=125, wall_thickness=4.5,
\* corrosion_rate=0.6, vibration=8.0, flow_rate=110 was scored.
C20_Witness ==
    /\ result.called
    /\ reading = [pressure |-> Dec(2200), temperature |-> Dec(12500),
                  wall_thickness |-> Dec(450), corrosion_rate |-> Dec(6000),
                  vibration |-> Dec(800), flow_rate |-> Dec(11000)]
    /\ Prediction.probability_of_failure = 9500
    /\ Prediction.risk_score = 38000

(***************************************************************************)
(* Claims about the alert                                                  *)
(***************************************************************************)
\* A log line above the level of the routine lines.
IsAlert(l) == l.level \in {"warning", "error", "critical"}

\* C18: every prediction of priority critical, created by a poll cycle, by
\* the manual trigger or by generate_ai_assessment, comes with an
\* alert-level log line, and no prediction of lower priority does.
C18_CriticalIsAlerted ==
    (last_prediction.via # "none") =>
        ((\E l \in last_prediction.logs : IsAlert(l))
            <=> last_prediction.priority = "critical")

(***************************************************************************)
(* Further claims about the scoring engine                                 *)
(***************************************************************************)
\* C28: the value calculate_pof returns is never lower than the unboosted
\* mean of the present channels' bucket scores rounded to two decimals.
C28_BoostNeverReduces ==
    (result.called /\ result.risk_scores # <<>>) =>
        Prediction.probability_of_failure
            >= Format2f(100 * Sum(result.risk_scores), Len(result.risk_scores))

\* The order low < medium < high < critical.
Severity == [low |-> 1, medium |-> 2, high |-> 3, critical |-> 4]

\* C29: the priority of a prediction is at least as severe as its
\* consequence_of_failure in the order low < medium < high < critical.
C29_PriorityAtLeastConsequence ==
    result.called =>
        Severity[Prediction.priority] >= Severity[Prediction.consequence_of_failure]

\* C29 witness: a prediction whose pof alone (below 60) would give a lower
\* priority than its critical consequence.
C29_Witness ==
    /\ result.called
    /\ Prediction.consequence_of_failure = "critical"
    /\ Prediction.probability_of_failure < 6000
    /\ Prediction.priority = "critical"

\* All six channels carry a value.
Complete(sensor_data_in) == \A c \in ChannelNames : sensor_data_in[c] # Null

\* C30: a reading with all six channels present has confidence 95.00,
\* whatever variance random.uniform(-5, 5) returned.
C30_CompleteReadingConfidence ==
    (result.called /\ Complete(reading)) =>
        Prediction.confidence_score = 9500

\* C30 witness: a complete reading, one channel holding 0, scored with the
\* lowest variance, -5.
C30_Witness ==
    /\ result.called
    /\ Complete(reading)
    /\ reading.wall_thickness = Dec(0)
    /\ result.variance = 0 - 500
    /\ Prediction.confidence_score = 9500

(***************************************************************************)
(* Claims about the simulator                                              *)
(***************************************************************************)
\* C22: in critical mode every value generate_reading produces scores in
\* its channel's critical bucket of calculate_pof, and in warning mode in
\* its channel's warning bucket.
C22_ModeBands ==
    \A c \in ChannelNames :
        reading[c] # Null =>
            /\ risk_mode = "critical" =>
                   ChannelRisk(c, reading[c][1]) = RISK_SCORES[c][1]
            /\ risk_mode = "warning" =>
                   ChannelRisk(c, reading[c][1]) = RISK_SCORES[c][2]

(***************************************************************************)
(* Claims about concurrent callers                                         *)
(***************************************************************************)
\* Worker threads that were started.
StartedWorkers == {w \in Workers : pc[w] # "unborn"}

\* C26: threads that call start() on a stopped instance, or
\* start_scheduler() while no global scheduler exists, at the same time
\* start at most one worker thread between them.
C26_OneWorkerFromConcurrentStarts == Cardinality(StartedWorkers) <= 1

(***************************************************************************)
(* Claims about the read paths and the stored rows                         *)
(***************************************************************************)
\* The step is a read of this kind (a read repeated with the same response
\* changes nothing at all).
IsRead(op) == last_request'.op = op /\ last_request' # last_request

RowsOfInspection(i) == {r \in sensor_data : r.inspection_id = i}

PredictionsOfInspection(i) == {p \in failure_predictions : p.inspection_id = i}

\* C21: get_latest_assessment creates and changes no rows; when the
\* inspection has a stored prediction it returns the inspection's most
\* recently recorded reading with that reading's own prediction, and it
\* returns None only when the inspection has no prediction.
C21_LatestAssessment ==
    [][IsRead("latest_assessment") =>
          LET i == last_request'.id
              got == last_request'.pair
          IN  /\ sensor_data' = sensor_data
              /\ failure_predictions' = failure_predictions
              /\ PredictionsOfInspection(i) # {} =>
                     /\ got # <<>>
                     /\ got[1] \in RowsOfInspection(i)
                     /\ \A r \in RowsOfInspection(i) : r.id <= got[1].id
                     /\ got[2] \in failure_predictions
                     /\ got[2].sensor_data_id = got[1].id
              /\ got = <<>> => PredictionsOfInspection(i) = {}]_vars

\* The readings of inspection i that have a prediction.
PairedReadings(i) ==
    {r \in RowsOfInspection(i) : \E p \in failure_predictions : p.sensor_data_id = r.id}

\* C25: sensor-history of an existing inspection returns at most `limit`
\* entries, newest reading first, each a reading of the inspection with its
\* own prediction, and they are the `limit` most recent (reading,
\* prediction) pairs of the inspection.
C25_SensorHistory ==
    [][(IsRead("sensor_history") /\ Exists(last_request'.id)) =>
          LET i == last_request'.id
              limit == last_request'.limit
              entries == last_request'.entries
              n == Len(entries)
              pairs == Cardinality(PairedReadings(i))
          IN  /\ n <= limit
              /\ \A k \in 1..n :
                     /\ entries[k][1] \in RowsOfInspection(i)
                     /\ entries[k][2] \in failure_predictions
                     /\ entries[k][2].sensor_data_id = entries[k][1].id
              /\ \A k \in 1..(n - 1) : entries[k][1].id > entries[k + 1][1].id
              /\ n = IF pairs < limit THEN pairs ELSE limit
              /\ \A r \in PairedReadings(i) :
                     (\E k \in 1..n : entries[k][1] = r)
                         \/ (\A k \in 1..n : entries[k][1].id > r.id)]_vars

\* C24: no step of the poll cycle, the manual trigger (the engine inside
\* both) or the read paths modifies or deletes a committed SensorData or
\* FailurePrediction row: rows are added or both tables stay as they are,
\* and a read leaves them as they are.
C24_CommittedRowsStay ==
    [][/\ sensor_data \subseteq sensor_data'
       /\ failure_predictions \subseteq failure_predictions'
       /\ (IsRead("latest_assessment") \/ IsRead("sensor_history")) =>
              /\ sensor_data' = sensor_data
              /\ failure_predictions' = failure_predictions]_vars

\* C24 witness: a manual trigger added a reading and a prediction next to
\* the rows committed before it.
C24_Witness ==
    /\ last_request.op = "trigger"
    /\ last_request.changed
    /\ Cardinality(sensor_data) >= 2
    /\ Cardinality(failure_predictions) >= 2

(***************************************************************************)
(* Claims about the poll cycle and the status of the inspections           *)
(***************************************************************************)
\* The step is the cycle's query, one iteration of its loop, its end.
IsQuery == poll.pc \in {"idle", "done"} /\ poll'.pc = "loop"

IsIteration == poll.pc = "loop" /\ poll.todo # <<>> /\ poll'.todo = Tail(poll.todo)

IsEnd == poll.pc = "loop" /\ poll'.pc = "done"

\* C23: a poll cycle in which no step fails creates exactly one reading and
\* one prediction for each inspection that was in_progress when the cycle
\* queried, attributed to its primary inspector (user 1 when it has
\* none), and nothing for an inspection with another status.
C23_OnePairPerQueriedInspection ==
    [][/\ IsQuery =>
              /\ cycle'.queried =
                     {i \in InspectionIds : inspection_status[i] = "in_progress"}
              /\ {poll'.todo[k] : k \in 1..Len(poll'.todo)} = cycle'.queried
              /\ Len(poll'.todo) = Cardinality(cycle'.queried)
       /\ (IsIteration /\ cycle'.errors = {}) =>
              LET i == Head(poll.todo)
                  readings == sensor_data' \ sensor_data
                  predictions == failure_predictions' \ failure_predictions
              IN  /\ i \in cycle.queried
                  /\ sensor_data \subseteq sensor_data'
                  /\ failure_predictions \subseteq failure_predictions'
                  /\ Cardinality(readings) = 1
                  /\ Cardinality(predictions) = 1
                  /\ \A r \in readings :
                         /\ r.inspection_id = i
                         /\ r.recorded_by_id =
                               IF primary_inspector_id[i] = None THEN 1
                               ELSE primary_inspector_id[i]
                         /\ \A p \in predictions :
                               p.inspection_id = i /\ p.sensor_data_id = r.id
       /\ (IsEnd /\ cycle.errors = {}) => cycle.committed = cycle.queried]_vars

\* C23 witness: a cycle without failure is over; it queried inspection 1
\* (inspector: user 2) alone and committed one reading, recorded by user 2,
\* and its prediction.
C23_Witness ==
    /\ poll.pc = "done"
    /\ cycle.errors = {}
    /\ ~cycle.query_failed
    /\ cycle.queried = {1}
    /\ cycle.committed = {1}
    /\ primary_inspector_id[1] = 2
    /\ sensor_data = {SensorRow(1, 1, 2)}
    /\ failure_predictions = {PredictionRow(1, 1, 1)}

\* C27: a poll cycle commits no reading or prediction for an inspection
\* whose status is not in_progress at the commit.
C27_NoCommitAfterCompletion ==
    last_prediction.via = "cycle" =>
        inspection_status[last_prediction.inspection_id] = "in_progress"

====
